---- MODULE Spec2Model ----
(***************************************************************************)
(* bugwarrior service connectors.  This module models one fetch pass of    *)
(* PhabricatorService (src/bugwarrior/services/phab.py): construction of   *)
(* the service from its configuration, the maniphest queries of tasks(),   *)
(* the differential query of revisions(), the client-side membership       *)
(* filter of both loops and the records handed to the collector; one fetch *)
(* pass of GerritService (src/bugwarrior/services/gerrit.py): the changes  *)
(* request, the parse of its body and the annotations of every change; and *)
(* to_taskwarrior() of an issue of the Gerrit, Phabricator and Redmine     *)
(* (src/bugwarrior/services/redmine.py) connectors.                        *)
(***************************************************************************)
EXTENDS Integers, Sequences, FiniteSets, TLC

VARIABLES
    options,        \* the service's options as written in the configuration
    config,         \* self.config: the validated PhabricatorConfig
    ignore_cc,      \* self.ignore_cc
    ignore_author,  \* self.ignore_author
    pc,             \* position of the pass in __init__ / tasks() / revisions()
    tasks_owner,    \* tasks(): local tasks_owner
    tasks_cc,       \* tasks(): local tasks_cc
    tasks_author,   \* tasks(): local tasks_author
    tasks,          \* tasks(): local tasks
    diffs,          \* revisions(): local diffs
    i,              \* index of the next element of the running for loop
    out,            \* the records the consumer of issues() has received
    calls,          \* the remote calls issued so far and their outcomes
    warned,         \* the sequences that logged a warning
    raised,         \* the exception that reached the consumer, or "none"
    remoteTasks,    \* the task records the remote may return in this pass
    remoteDiffs,    \* the revision records the remote may return in this pass
    budget,         \* how many more records the remote returns in this pass
    gpc,            \* position of the pass in GerritService.issues()
    response,       \* issues(): local response (status_code and text)
    body,           \* issues(): local body
    changes,        \* issues(): local changes
    gi,             \* index of the next change of "for change in changes"
    gout,           \* the issues the consumer of GerritService.issues() received
    graised,        \* the exception that reached that consumer, or "none"
    gets,           \* the URLs of the GET requests of the pass
    gerritRemote,   \* the change lists the Gerrit server may answer with
    mconfig,        \* self.config of the issue that is normalised
    issue,          \* an issue a connector yielded: service, record and extra
    normalized      \* <<issue.to_taskwarrior()>> once the collector called it

service == <<options, config, ignore_cc, ignore_author>>
locals == <<tasks_owner, tasks_cc, tasks_author, tasks, diffs, i>>
remote == <<remoteTasks, remoteDiffs>>
phabricator == <<options, config, ignore_cc, ignore_author, pc, tasks_owner,
                 tasks_cc, tasks_author, tasks, diffs, i, out, calls, warned,
                 raised, remoteTasks, remoteDiffs, budget>>
gerrit == <<gpc, response, body, changes, gi, gout, graised, gets, gerritRemote>>
mapping == <<mconfig, issue, normalized>>
vars == <<options, config, ignore_cc, ignore_author, pc, tasks_owner, tasks_cc,
          tasks_author, tasks, diffs, i, out, calls, warned, raised,
          remoteTasks, remoteDiffs, budget, gpc, response, body, changes, gi,
          gout, graised, gets, gerritRemote, mconfig, issue, normalized>>

(***************************************************************************)
(* Bounds of the model.                                                    *)
(***************************************************************************)
\* Records the remote returns in one pass of Spec (all queries together).
MaxRecords == 2
\* Records the remote returns in one pass of SpecWide.
MaxRecordsWide == 1
\* Changes in the answer of the Gerrit server.
MaxChanges == 2
\* Messages of the changes of one answer (all changes together).
MaxMessages == 2
\* Characters of the free part of a Gerrit message text.
MaxText == 3
\* Characters of a Redmine project name.
MaxName == 3

(***************************************************************************)
(* Values.                                                                 *)
(***************************************************************************)
\* Python's None in a PHID field (an unassigned task, a diff of no repository).
None == "None"
\* Python's None in an Optional[bool] field; a given value b is <<b>>.
NoBool == <<>>

\* The sequences of at most n elements of S.
SeqsUpTo(S, n) == UNION {[1..k -> S] : k \in 0..n}

RECURSIVE SeqToSet(_)
SeqToSet(s) == IF s = <<>> THEN {} ELSE {Head(s)} \cup SeqToSet(Tail(s))

(***************************************************************************)
(* The configuration.  `options` holds the options the configuration file  *)
(* writes for the service: a function whose domain is the written names.   *)
(***************************************************************************)
Written(name, values) == {<<>>} \cup {name :> v : v \in values}

\* Every way of writing the service's options.
AllOptions ==
    {a @@ b @@ c @@ d @@ e @@ f @@ g :
        a \in Written("user_phids", {{"U1"}, {"U1", "U2"}}),
        b \in Written("project_phids", {{"P1"}}),
        c \in Written("ignore_cc", BOOLEAN),
        d \in Written("ignore_author", BOOLEAN),
        e \in Written("ignore_owner", BOOLEAN),
        f \in Written("ignore_reviewers", BOOLEAN),
        g \in Written("only_if_assigned", BOOLEAN)}

\* Options that write the four ignore flags and leave only_if_assigned out:
\* they construct every combination of the values a pass reads.
StartOptions ==
    {o \in AllOptions :
        /\ {"ignore_cc", "ignore_author", "ignore_owner", "ignore_reviewers"}
              \subseteq DOMAIN o
        /\ "only_if_assigned" \notin DOMAIN o}

\* PhabricatorConfig: the schema's defaults applied to the written options.
PhabricatorConfig(o) ==
    [user_phids       |-> IF "user_phids" \in DOMAIN o THEN o.user_phids ELSE {},
     project_phids    |-> IF "project_phids" \in DOMAIN o THEN o.project_phids
                          ELSE {},
     ignore_cc        |-> IF "ignore_cc" \in DOMAIN o THEN <<o.ignore_cc>>
                          ELSE NoBool,
     ignore_author    |-> IF "ignore_author" \in DOMAIN o THEN <<o.ignore_author>>
                          ELSE NoBool,
     ignore_owner     |-> IF "ignore_owner" \in DOMAIN o THEN o.ignore_owner
                          ELSE FALSE,
     ignore_reviewers |-> IF "ignore_reviewers" \in DOMAIN o
                          THEN o.ignore_reviewers ELSE FALSE,
     only_if_assigned |-> IF "only_if_assigned" \in DOMAIN o
                          THEN o.only_if_assigned ELSE FALSE]

\* A self.ignore_cc that lets only_if_assigned override an explicit false.
OrIgnoreCc(c) ==
    IF c.ignore_cc = NoBool THEN c.only_if_assigned
    ELSE c.ignore_cc[1] \/ c.only_if_assigned

\* PhabricatorService.__init__: self.ignore_cc.
InitIgnoreCc(c) ==
    IF c.ignore_cc # NoBool THEN c.ignore_cc[1] ELSE c.only_if_assigned

\* PhabricatorService.__init__: self.ignore_author.
InitIgnoreAuthor(c) ==
    IF c.ignore_author # NoBool THEN c.ignore_author[1] ELSE c.only_if_assigned

(***************************************************************************)
(* Records of the remote.  A maniphest task carries the fields tasks()     *)
(* reads; a differential revision those revisions() reads, its             *)
(* 'phabricator:projects' key (phabricator_projects here) being optional.  *)
(***************************************************************************)
\* A task in every combination of: unassigned or owned by U1, U1 subscribed
\* or not, written by U1 or U2, tagged with P1 or not.
AllTasks ==
    [phid : {"T1"}, ownerPHID : {None, "U1"}, ccPHIDs : {{}, {"U1"}},
     authorPHID : {"U1", "U2"}, projectPHIDs : {{}, {"P1"}}]

\* A revision in every combination of: U1 a reviewer or not, U1 subscribed
\* or not, written by U1 or U2, in repository P1 or in none, and its tag key
\* absent, empty or holding P1.
AllDiffs ==
    [phid : {"D1"}, reviewers : {{}, {"U1"}}, ccs : {{}, {"U1"}},
     authorPHID : {"U1", "U2"}, repositoryPHID : {None, "P1"}]
    \cup
    [phid : {"D1"}, reviewers : {{}, {"U1"}}, ccs : {{}, {"U1"}},
     authorPHID : {"U1", "U2"}, repositoryPHID : {None, "P1"},
     phabricator_projects : {{}, {"P1"}}]

\* Two tasks of user U1 (owner, subscriber and author), each as it is before
\* and after it is tagged with project P1: any of the scoped queries of a
\* pass configured for U1 or P1 may return them, in either version.
BasicTasks ==
    [phid : {"T1", "T2"}, ownerPHID : {"U1"}, ccPHIDs : {{"U1"}},
     authorPHID : {"U1"}, projectPHIDs : {{}, {"P1"}}]

\* A revision by another user, reviewed by U1 or not, tagged with P1 or
\* without the tag key.
BasicDiffs ==
    [phid : {"D1"}, reviewers : {{}, {"U1"}}, ccs : {{}},
     authorPHID : {"U2"}, repositoryPHID : {None}]
    \cup
    [phid : {"D1"}, reviewers : {{}, {"U1"}}, ccs : {{}},
     authorPHID : {"U2"}, repositoryPHID : {None},
     phabricator_projects : {{"P1"}}]

(***************************************************************************)
(* The membership filter of tasks() and revisions().                       *)
(***************************************************************************)
\* A relevance set that forgets the ignore_owner flag.
OwnerAlwaysRelevant(task) ==
    (IF ~ignore_cc THEN task.ccPHIDs ELSE {})
    \cup {task.ownerPHID}
    \cup (IF ~ignore_author THEN {task.authorPHID} ELSE {})

\* tasks(): task_relevant_to of the user_phids check.
TaskRelevantTo(task) ==
    (IF ~ignore_cc THEN task.ccPHIDs ELSE {})
    \cup (IF ~config.ignore_owner THEN {task.ownerPHID} ELSE {})
    \cup (IF ~ignore_author THEN {task.authorPHID} ELSE {})

\* A filter that asks for both checks to match when both lists are set.
TaskMatchesBoth(task) ==
    IF config.user_phids = {} /\ config.project_phids = {} THEN TRUE
    ELSE /\ config.user_phids # {} =>
                TaskRelevantTo(task) \cap config.user_phids # {}
         /\ config.project_phids # {} =>
                task.projectPHIDs \cap config.project_phids # {}

\* A filter without the "neither list is set" default of this_task_matches.
TaskMatchesWithoutDefault(task) ==
    \/ /\ config.user_phids # {}
       /\ TaskRelevantTo(task) \cap config.user_phids # {}
    \/ /\ config.project_phids # {}
       /\ task.projectPHIDs \cap config.project_phids # {}

\* tasks(): this_task_matches after the three checks of one iteration.
ThisTaskMatches(task) ==
    LET unfiltered == config.user_phids = {} /\ config.project_phids = {}
        m1 == IF unfiltered THEN TRUE ELSE FALSE
        m2 == IF /\ config.user_phids # {}
                 /\ TaskRelevantTo(task) \cap config.user_phids # {}
              THEN TRUE ELSE m1
        m3 == IF /\ config.project_phids # {}
                 /\ task.projectPHIDs \cap config.project_phids # {}
              THEN TRUE ELSE m2
    IN  m3

\* revisions(): diff_relevant_to of the user_phids check.
DiffRelevantTo(diff) ==
    (IF ~config.ignore_reviewers THEN diff.reviewers ELSE {})
    \cup (IF ~ignore_cc THEN diff.ccs ELSE {})
    \cup (IF ~ignore_author THEN {diff.authorPHID} ELSE {})

\* A projects set that skips the repository when the tag key is absent.
ProjectsOrNothing(diff) ==
    IF "phabricator_projects" \in DOMAIN diff
    THEN diff.phabricator_projects \cup {diff.repositoryPHID}
    ELSE {}

\* revisions(): diff_relevant_to of the project_phids check; the KeyError of
\* an absent 'phabricator:projects' is caught and leaves the empty list.
DiffProjects(diff) ==
    LET phabricator_projects ==
            IF "phabricator_projects" \in DOMAIN diff
            THEN diff.phabricator_projects ELSE {}
    IN  phabricator_projects \cup {diff.repositoryPHID}

\* revisions(): this_diff_matches after the three checks of one iteration.
ThisDiffMatches(diff) ==
    LET unfiltered == config.user_phids = {} /\ config.project_phids = {}
        m1 == IF unfiltered THEN TRUE ELSE FALSE
        m2 == IF /\ config.user_phids # {}
                 /\ DiffRelevantTo(diff) \cap config.user_phids # {}
              THEN TRUE ELSE m1
        m3 == IF /\ config.project_phids # {}
                 /\ DiffProjects(diff) \cap config.project_phids # {}
              THEN TRUE ELSE m2
    IN  m3

\* get_issue_for_record(record, extra): the record handed to the consumer.
Issue(record, type) == [record |-> record, type |-> type]

RECURSIVE DeleteDuplicatesFrom(_, _)
DeleteDuplicatesFrom(items, seen) ==
    IF items = <<>> THEN <<>>
    ELSE IF Head(items) \in seen
         THEN DeleteDuplicatesFrom(Tail(items), seen)
         ELSE <<Head(items)>>
              \o DeleteDuplicatesFrom(Tail(items), seen \cup {Head(items)})

\* tasks(): "Delete duplicates": the first item of each rendered content.
DeleteDuplicates(items) == DeleteDuplicatesFrom(items, {})

(***************************************************************************)
(* Remote calls.  A call returns items or fails: with phabricator.APIError *)
(* or with another exception (a connection that breaks).                   *)
(***************************************************************************)
Distinct(s) == \A a, b \in 1..Len(s) : s[a].phid = s[b].phid => a = b

\* maniphest.query answers a mapping PHID -> task: one item per PHID.
ManiphestResults == {s \in SeqsUpTo(remoteTasks, budget) : Distinct(s)}

\* differential.query answers a list of revisions.
DifferentialResults == SeqsUpTo(remoteDiffs, budget)

Outcomes(results) ==
    {[error |-> "none", items |-> s] : s \in results}
    \cup {[error |-> e, items |-> <<>>] : e \in {"APIError", "ConnectionError"}}

\* The log of remote calls: the method, the constraint of the query, how many
\* records the consumer had received when it was issued, and its outcome.
Call(method, by, o) ==
    calls' = Append(calls, [method |-> method, by |-> by, at |-> Len(out),
                            error |-> o.error, items |-> o.items])

\* A handler that catches nothing.
ExceptNothing(error) == FALSE

\* except phabricator.APIError
ExceptAPIError(error) == error = "APIError"

\* An issues() that runs tasks() again after revisions().
TasksAfterRevisions(finished) ==
    IF finished = "tasks" THEN "revisions" ELSE "tasks"

\* An issues() that is over when tasks() has returned.
DoneAfterTasks(finished) == "done"

\* issues(): "yield from self.tasks()" then "yield from self.revisions()":
\* where the pass goes when one of the two generators has returned.
IssuesNext(finished) ==
    IF finished = "tasks" THEN "revisions" ELSE "done"

NoLocals ==
    /\ tasks_owner' = <<>> /\ tasks_cc' = <<>> /\ tasks_author' = <<>>
    /\ tasks' = <<>> /\ diffs' = <<>> /\ i' = 0

\* An exception in the try block of tasks(): caught, logged and the generator
\* returns, or it leaves issues() for the consumer.
TasksExcept(error) ==
    /\ NoLocals
    /\ IF ExceptAPIError(error)
       THEN /\ warned' = warned \cup {"tasks"}
            /\ pc' = IssuesNext("tasks")
            /\ raised' = raised
       ELSE warned' = warned /\ pc' = "raised" /\ raised' = error

\* An exception in the try block of revisions().
RevisionsExcept(error) ==
    /\ NoLocals
    /\ IF ExceptAPIError(error)
       THEN /\ warned' = warned \cup {"revisions"}
            /\ pc' = IssuesNext("revisions")
            /\ raised' = raised
       ELSE warned' = warned /\ pc' = "raised" /\ raised' = error

(***************************************************************************)
(* Construction.                                                           *)
(***************************************************************************)
\* The configuration is validated against PhabricatorConfig.
LoadConfig ==
    /\ pc = "load"
    /\ config' = PhabricatorConfig(options)
    /\ pc' = "init"
    /\ UNCHANGED <<options, ignore_cc, ignore_author, locals, out, calls, warned,
                   raised, remote, gerrit, mapping, budget>>

\* PhabricatorService.__init__
Construct ==
    /\ pc = "init"
    /\ ignore_cc' = InitIgnoreCc(config)
    /\ ignore_author' = InitIgnoreAuthor(config)
    /\ pc' = "tasks"
    /\ UNCHANGED <<options, config, locals, out, calls, warned, raised, remote,
                   gerrit, mapping, budget>>

(***************************************************************************)
(* tasks()                                                                 *)
(***************************************************************************)
\* The branch tasks() takes on entry (the conditions of its first two ifs).
TasksEntry ==
    IF config.user_phids # {} \/ config.project_phids # {}
    THEN IF config.user_phids # {} THEN "q_owner" ELSE "q_project"
    ELSE "q_all"

\* issues() starts tasks().
Tasks ==
    /\ pc = "tasks"
    /\ pc' = TasksEntry
    /\ UNCHANGED <<service, locals, out, calls, warned, raised, remote, gerrit,
                   mapping, budget>>

QueryOwner ==
    /\ pc = "q_owner"
    /\ \E o \in Outcomes(ManiphestResults) :
          /\ Call("maniphest.query", "ownerPHIDs", o)
          /\ budget' = budget - Len(o.items)
          /\ IF o.error = "none"
             THEN /\ tasks_owner' = o.items
                  /\ pc' = "q_cc"
                  /\ UNCHANGED <<tasks_cc, tasks_author, tasks, diffs, i, warned,
                                 raised>>
             ELSE TasksExcept(o.error)
    /\ UNCHANGED <<service, out, remote, gerrit, mapping>>

QueryCc ==
    /\ pc = "q_cc"
    /\ \E o \in Outcomes(ManiphestResults) :
          /\ Call("maniphest.query", "ccPHIDs", o)
          /\ budget' = budget - Len(o.items)
          /\ IF o.error = "none"
             THEN /\ tasks_cc' = o.items
                  /\ pc' = "q_author"
                  /\ UNCHANGED <<tasks_owner, tasks_author, tasks, diffs, i,
                                 warned, raised>>
             ELSE TasksExcept(o.error)
    /\ UNCHANGED <<service, out, remote, gerrit, mapping>>

QueryAuthor ==
    /\ pc = "q_author"
    /\ \E o \in Outcomes(ManiphestResults) :
          /\ Call("maniphest.query", "authorPHIDs", o)
          /\ budget' = budget - Len(o.items)
          /\ IF o.error = "none"
             THEN /\ tasks_author' = o.items
                  /\ pc' = "concat"
                  /\ UNCHANGED <<tasks_owner, tasks_cc, tasks, diffs, i, warned,
                                 raised>>
             ELSE TasksExcept(o.error)
    /\ UNCHANGED <<service, out, remote, gerrit, mapping>>

\* The three lists are concatenated and duplicates deleted; then the
\* project_phids branch is taken or the loop starts.
Concat ==
    /\ pc = "concat"
    /\ tasks' = DeleteDuplicates(tasks_owner \o tasks_cc \o tasks_author)
    /\ i' = 1
    /\ pc' = IF config.project_phids # {} THEN "q_project" ELSE "loop_tasks"
    /\ UNCHANGED <<service, tasks_owner, tasks_cc, tasks_author, diffs, out,
                   calls, warned, raised, remote, gerrit, mapping, budget>>

\* A project branch that adds the project query's items to the user-derived ones.
UnionWithUserTasks(current, items) == DeleteDuplicates(current \o items)

\* tasks(): "tasks = self.api.maniphest.query(projectPHIDs=...)" followed by
\* "tasks = tasks.items()": the value of tasks after the project branch.
ProjectTasks(current, items) == items

QueryProject ==
    /\ pc = "q_project"
    /\ \E o \in Outcomes(ManiphestResults) :
          /\ Call("maniphest.query", "projectPHIDs", o)
          /\ budget' = budget - Len(o.items)
          /\ IF o.error = "none"
             THEN /\ tasks' = ProjectTasks(tasks, o.items)
                  /\ i' = 1
                  /\ pc' = "loop_tasks"
                  /\ UNCHANGED <<tasks_owner, tasks_cc, tasks_author, diffs,
                                 warned, raised>>
             ELSE TasksExcept(o.error)
    /\ UNCHANGED <<service, out, remote, gerrit, mapping>>

QueryAll ==
    /\ pc = "q_all"
    /\ \E o \in Outcomes(ManiphestResults) :
          /\ Call("maniphest.query", "status", o)
          /\ budget' = budget - Len(o.items)
          /\ IF o.error = "none"
             THEN /\ tasks' = o.items
                  /\ i' = 1
                  /\ pc' = "loop_tasks"
                  /\ UNCHANGED <<tasks_owner, tasks_cc, tasks_author, diffs,
                                 warned, raised>>
             ELSE TasksExcept(o.error)
    /\ UNCHANGED <<service, out, remote, gerrit, mapping>>

\* One iteration of "for phid, task in tasks": the task is yielded or skipped.
TaskStep ==
    /\ pc = "loop_tasks"
    /\ i <= Len(tasks)
    /\ out' = IF ThisTaskMatches(tasks[i])
              THEN Append(out, Issue(tasks[i], "issue")) ELSE out
    /\ i' = i + 1
    /\ UNCHANGED <<service, pc, tasks_owner, tasks_cc, tasks_author, tasks,
                   diffs, calls, warned, raised, remote, gerrit, mapping,
                   budget>>

\* The loop is exhausted: tasks() returns and issues() starts revisions().
TasksReturn ==
    /\ pc = "loop_tasks"
    /\ i > Len(tasks)
    /\ NoLocals
    /\ pc' = IssuesNext("tasks")
    /\ UNCHANGED <<service, out, calls, warned, raised, remote, gerrit, mapping,
                   budget>>

(***************************************************************************)
(* revisions()                                                             *)
(***************************************************************************)
QueryDifferential ==
    /\ pc = "revisions"
    /\ \E o \in Outcomes(DifferentialResults) :
          /\ Call("differential.query", "status", o)
          /\ budget' = budget - Len(o.items)
          /\ IF o.error = "none"
             THEN /\ diffs' = o.items
                  /\ i' = 1
                  /\ pc' = "loop_diffs"
                  /\ UNCHANGED <<tasks_owner, tasks_cc, tasks_author, tasks,
                                 warned, raised>>
             ELSE RevisionsExcept(o.error)
    /\ UNCHANGED <<service, out, remote, gerrit, mapping>>

\* One iteration of "for diff in diffs".
DiffStep ==
    /\ pc = "loop_diffs"
    /\ i <= Len(diffs)
    /\ out' = IF ThisDiffMatches(diffs[i])
              THEN Append(out, Issue(diffs[i], "pull_request")) ELSE out
    /\ i' = i + 1
    /\ UNCHANGED <<service, pc, tasks_owner, tasks_cc, tasks_author, tasks,
                   diffs, calls, warned, raised, remote, gerrit, mapping,
                   budget>>

\* The loop is exhausted: revisions() returns and so does issues().
RevisionsReturn ==
    /\ pc = "loop_diffs"
    /\ i > Len(diffs)
    /\ NoLocals
    /\ pc' = IssuesNext("revisions")
    /\ UNCHANGED <<service, out, calls, warned, raised, remote, gerrit, mapping,
                   budget>>

(***************************************************************************)
(* Text.  A Python str is a sequence of one-character strings.             *)
(***************************************************************************)
\* The characters str.strip() removes (those that occur in the messages).
Whitespace == {" ", "\n"}

RECURSIVE LStrip(_, _)
\* str.lstrip(chars): leading characters are dropped as long as each of them
\* is one of the characters of chars.
LStrip(s, chars) ==
    IF s # <<>> /\ Head(s) \in chars THEN LStrip(Tail(s), chars) ELSE s

RECURSIVE RStrip(_, _)
RStrip(s, chars) ==
    IF s # <<>> /\ s[Len(s)] \in chars
    THEN RStrip(SubSeq(s, 1, Len(s) - 1), chars) ELSE s

\* str.strip()
Strip(s) == RStrip(LStrip(s, Whitespace), Whitespace)

\* str.replace(old, new) for one-character old and new.
Replace(s, old, new) == [k \in 1..Len(s) |-> IF s[k] = old THEN new ELSE s[k]]

Digit(d) == <<"0", "1", "2", "3", "4", "5", "6", "7", "8", "9">>[d + 1]

RECURSIVE Str(_)
\* "%s" % n for a natural number n.
Str(n) == IF n < 10 THEN <<Digit(n)>> ELSE Str(n \div 10) \o <<Digit(n % 10)>>

(***************************************************************************)
(* GerritService.  A change is a record with the keys project, number (for *)
(* _number), subject, branch and messages; a message has the keys author,  *)
(* message and revision_number (for _revision_number); an author always    *)
(* has account_id (for _account_id) and may have name, username and email. *)
(***************************************************************************)
PatchSet == <<"P", "a", "t", "c", "h", " ", "S", "e", "t", " ">>

\* annotations(): the message of one entry.
Message(item) ==
    Replace(
        Strip(
            LStrip(LStrip(item.message, SeqToSet(PatchSet)),
                   SeqToSet(Str(item.revision_number) \o <<":">>))),
        "\n", " ")

\* A lookup that tries username before name.
UsernameFirst(item) ==
    IF "username" \in DOMAIN item.author THEN item.author.username
    ELSE IF "name" \in DOMAIN item.author THEN item.author.name
    ELSE IF "email" \in DOMAIN item.author THEN item.author.email
    ELSE item.author.account_id

\* annotations(): username of one entry, the for/else over
\* ['name', 'username', 'email'].
Username(item) ==
    IF "name" \in DOMAIN item.author THEN item.author.name
    ELSE IF "username" \in DOMAIN item.author THEN item.author.username
    ELSE IF "email" \in DOMAIN item.author THEN item.author.email
    ELSE item.author.account_id

\* annotations(): entries, one (username, message) per item of
\* change['messages'].
Entries(change) ==
    [k \in 1..Len(change.messages) |->
        <<Username(change.messages[k]), Message(change.messages[k])>>]

\* build_url(change)
BuildUrl(change) == <<"base_uri", "/#/c/", change.number, "/">>

\* Service.build_annotations(entries, url): one annotation per entry, in
\* the order of the entries.
BuildAnnotations(entries, url) ==
    [k \in 1..Len(entries) |->
        [author |-> entries[k][1], text |-> entries[k][2]]]

\* annotations(change)
Annotations(change) == BuildAnnotations(Entries(change), BuildUrl(change))

\* get_issue_for_record(record, extra) of a connector.
GetIssueForRecord(name, record, extra) ==
    [service |-> name, record |-> record, extra |-> extra]

\* The garbage Gerrit puts before the JSON document of an answer.
Prefix == <<")", "]", "}", "'">>

\* A JSON document: a list of changes, or text json.loads rejects.
Json(cs) == [valid |-> TRUE, changes |-> cs]
NotJson == [valid |-> FALSE, changes |-> <<>>]

\* A response text: its first characters and the document that follows.
Text(prefix, doc) == [prefix |-> prefix, doc |-> doc]

\* response.text[4:]: a document that loses characters is no document.
From4(text) ==
    [prefix |-> SubSeq(text.prefix, 5, Len(text.prefix)),
     doc |-> IF Len(text.prefix) < 4 THEN NotJson ELSE text.doc]

\* json.loads(body) succeeds.
Loads(b) == b.prefix = <<>> /\ b.doc.valid

\* A raise_for_status that never raises.
RaiseForNothing(status_code) == FALSE

\* response.raise_for_status() raises HTTPError.
RaiseForStatus(status_code) == 400 <= status_code /\ status_code < 600

NoResponse == [status_code |-> 0, text |-> Text(<<>>, NotJson)]

\* What the server answers the changes request with: under status 200, 404
\* or 500 the change list after the prefix or a body that does not parse;
\* under 304 (a 3xx that requests hands over, not a redirect it follows) no
\* body at all.
Responses ==
    {[status_code |-> s, text |-> Text(Prefix, doc)] :
        s \in {200, 404, 500}, doc \in {Json(gerritRemote), NotJson}}
    \cup {[status_code |-> 304, text |-> Text(<<>>, NotJson)]}

GerritUrl == <<"base_uri", "/a/changes/?q=", "query_string">>

\* issues() up to its loop: the GET, raise_for_status(), the slice of the
\* text and json.loads().
Get ==
    /\ gpc = "issues"
    /\ gets' = Append(gets, GerritUrl)
    /\ \/ /\ response' = NoResponse
          /\ body' = body /\ changes' = changes /\ gi' = gi
          /\ graised' = "ConnectionError" /\ gpc' = "raised"
       \/ \E r \in Responses :
             /\ response' = r
             /\ IF RaiseForStatus(r.status_code)
                THEN /\ graised' = "HTTPError" /\ gpc' = "raised"
                     /\ body' = body /\ changes' = changes /\ gi' = gi
                ELSE /\ body' = From4(r.text)
                     /\ IF Loads(From4(r.text))
                        THEN /\ changes' = From4(r.text).doc.changes
                             /\ gi' = 1
                             /\ gpc' = "loop" /\ graised' = graised
                        ELSE /\ changes' = changes /\ gi' = gi
                             /\ graised' = "JSONDecodeError" /\ gpc' = "raised"
    /\ UNCHANGED <<gout, gerritRemote, phabricator, mapping>>

\* One iteration of "for change in changes": the issue is yielded.
ChangeStep ==
    /\ gpc = "loop"
    /\ gi <= Len(changes)
    /\ LET change == changes[gi]
           extra == [url |-> BuildUrl(change),
                     annotations |-> Annotations(change)]
       IN  gout' = Append(gout, GetIssueForRecord("gerrit", change, extra))
    /\ gi' = gi + 1
    /\ UNCHANGED <<gpc, response, body, changes, graised, gets, gerritRemote,
                   phabricator, mapping>>

\* The loop is exhausted: issues() returns.
GerritReturn ==
    /\ gpc = "loop"
    /\ gi > Len(changes)
    /\ gpc' = "done"
    /\ UNCHANGED <<response, body, changes, gi, gout, graised, gets,
                   gerritRemote, phabricator, mapping>>

(***************************************************************************)
(* to_taskwarrior() of the three connectors.  A text field is a sequence   *)
(* of characters; Null is Python's None in such a field.                   *)
(***************************************************************************)
Null == <<>>

\* dict.get(key, default) of a mapping from strings.
DictGet(d, key, default) == IF key \in DOMAIN d THEN d[key] ELSE default

\* A flag that counts a present key as true.
WorkInProgressIfPresent(record) ==
    IF "work_in_progress" \in DOMAIN record THEN 1 ELSE 0

\* GerritIssue.to_taskwarrior: int(self.record.get('work_in_progress', 0))
WorkInProgress(record) ==
    IF "work_in_progress" \in DOMAIN record
    THEN (IF record.work_in_progress THEN 1 ELSE 0)
    ELSE 0

\* GerritIssue.to_taskwarrior()
GerritToTaskwarrior(iss, cfg) ==
    [project       |-> iss.record.project,
     annotations   |-> iss.extra.annotations,
     gerriturl     |-> iss.extra.url,
     priority      |-> cfg.default_priority,
     tags          |-> <<>>,
     gerritid      |-> iss.record.number,
     gerritsummary |-> iss.record.subject,
     gerritbranch  |-> iss.record.branch,
     gerrittopic   |-> DictGet(iss.record, "topic", "notopic"),
     gerritstatus  |-> DictGet(iss.record, "status", ""),
     gerritwip     |-> WorkInProgress(iss.record)]

\* PhabricatorIssue.PRIORITY_MAP
PhabricatorPriorityMap ==
    ("Needs Triage" :> None) @@ ("Unbreak Now!" :> "H") @@ ("High" :> "H")
    @@ ("Normal" :> "M") @@ ("Low" :> "L") @@ ("Wishlist" :> "L")

\* A priority without the "or self.config.default_priority".
PriorityOrNone(record, cfg) ==
    DictGet(PhabricatorPriorityMap, DictGet(record, "priority", None), None)

\* PhabricatorIssue.priority
Priority(record, cfg) ==
    LET found == DictGet(PhabricatorPriorityMap,
                         DictGet(record, "priority", None), None)
    IN  IF found # None THEN found ELSE cfg.default_priority

\* PhabricatorIssue.to_taskwarrior(); a uri is the sequence of the parts
\* that its '/' separate.
PhabricatorToTaskwarrior(iss, cfg) ==
    [project          |-> iss.extra.project,
     priority         |-> Priority(iss.record, cfg),
     annotations      |-> DictGet(iss.extra, "annotations", <<>>),
     phabricatorurl   |-> iss.record.uri,
     phabricatortype  |-> iss.extra.type,
     phabricatortitle |-> iss.record.title,
     phabricatorid    |-> iss.record.uri[Len(iss.record.uri)]]

\* RedMineIssue.PRIORITY_MAP
RedMinePriorityMap ==
    ("Low" :> "L") @@ ("Normal" :> "M") @@ ("High" :> "H")
    @@ ("Urgent" :> "H") @@ ("Immediate" :> "H")

\* RedMineIssue.get_priority()
GetPriority(record, cfg) ==
    LET name == IF "priority" \in DOMAIN record
                THEN DictGet(record.priority, "name", None)
                ELSE None
    IN  DictGet(RedMinePriorityMap, name, cfg.default_priority)

LowerCase ==
    <<"a", "b", "c", "d", "e", "f", "g", "h", "i", "j", "k", "l", "m",
      "n", "o", "p", "q", "r", "s", "t", "u", "v", "w", "x", "y", "z">>
UpperCase ==
    <<"A", "B", "C", "D", "E", "F", "G", "H", "I", "J", "K", "L", "M",
      "N", "O", "P", "Q", "R", "S", "T", "U", "V", "W", "X", "Y", "Z">>
Digits == {Digit(d) : d \in 0..9}

\* Matched by [^a-zA-Z0-9].
NotAlnum(c) == c \notin SeqToSet(LowerCase) \cup SeqToSet(UpperCase) \cup Digits

\* re.sub(r'[^a-zA-Z0-9]', '', s)
SubNotAlnum(s) == LET Kept(c) == ~NotAlnum(c) IN SelectSeq(s, Kept)

\* str.lower() of one ASCII character.
LowerChar(c) ==
    IF c \in SeqToSet(UpperCase)
    THEN LowerCase[CHOOSE k \in 1..Len(UpperCase) : UpperCase[k] = c]
    ELSE c

\* str.lower()
Lower(s) == [k \in 1..Len(s) |-> LowerChar(s[k])]

\* A project name that is lower-cased but keeps all its characters.
LoweredProjectName(record, cfg) ==
    IF cfg.project_name # <<>> THEN cfg.project_name
    ELSE Lower(record.project.name)

\* RedMineIssue.get_project_name()
GetProjectName(record, cfg) ==
    IF cfg.project_name # <<>> THEN cfg.project_name
    ELSE Lower(SubNotAlnum(record.project.name))

\* str(hours) of a float with one decimal; hours are counted in tenths.
StrFloat(tenths) == Str(tenths \div 10) \o <<".">> \o Str(tenths % 10)

DigitValue(c) == CHOOSE d \in 0..9 : Digit(d) = c

RECURSIVE ParseNat(_)
ParseNat(s) ==
    IF s = <<>> THEN 0
    ELSE 10 * ParseNat(SubSeq(s, 1, Len(s) - 1)) + DigitValue(s[Len(s)])

\* TaskWarriorShellout()._execute('calc', '<n>.<d> hours')[0]: the ISO-8601
\* duration, in minutes, and the newline that ends the line.
Calc(expression) ==
    LET dot == CHOOSE k \in 1..Len(expression) : expression[k] = "."
        tenths == 10 * ParseNat(SubSeq(expression, 1, dot - 1))
                  + DigitValue(expression[dot + 1])
    IN  <<"P", "T">> \o Str(6 * tenths) \o <<"M", "\n">>

\* RedMineIssue.get_converted_hours(estimated_hours)
GetConvertedHours(estimated_hours) == RStrip(Calc(estimated_hours), Whitespace)

\* A conversion without the "or hours == 0.0".
ConvertedIfTruthy(record, key) ==
    IF key \in DOMAIN record /\ record[key] # 0
    THEN GetConvertedHours(StrFloat(record[key]) \o <<" ", "h", "o", "u", "r", "s">>)
    ELSE Null

\* RedMineIssue.to_taskwarrior(): spent_hours and estimated_hours, from
\* self.record.get(key) to the value of the output field.
ConvertedHours(record, key) ==
    IF key \in DOMAIN record /\ (record[key] # 0 \/ record[key] = 0)
    THEN GetConvertedHours(StrFloat(record[key]) \o <<" ", "h", "o", "u", "r", "s">>)
    ELSE Null

\* Service.parse_date(text): the datetime a timestamp text stands for; the
\* text is the pair of its seconds and its microseconds.
ParseDate(text) == [second |-> text[1], microsecond |-> text[2]]

\* RedMineIssue.to_taskwarrior(): a date field: Null when the record has
\* none, else <<the datetime>>, parsed and with replace(microsecond=0).
Date(record, key) ==
    IF key \in DOMAIN record
    THEN <<[ParseDate(record[key]) EXCEPT !.microsecond = 0]>>
    ELSE Null

\* RedMineIssue.to_taskwarrior(): category and assigned_to, reduced to
\* their name.
NameOf(record, key) ==
    IF key \in DOMAIN record THEN record[key].name ELSE None

\* RedMineIssue.get_issue_url()
GetIssueUrl(record) == <<"url", "/issues/", record.id>>

\* RedMineIssue.to_taskwarrior()
RedMineToTaskwarrior(iss, cfg) ==
    [project               |-> GetProjectName(iss.record, cfg),
     annotations           |-> DictGet(iss.extra, "annotations", <<>>),
     priority              |-> GetPriority(iss.record, cfg),
     redmineurl            |-> GetIssueUrl(iss.record),
     redminesubject        |-> iss.record.subject,
     redmineid             |-> iss.record.id,
     redminedescription    |-> DictGet(iss.record, "description", ""),
     redminetracker        |-> iss.record.tracker.name,
     redminestatus         |-> iss.record.status.name,
     redmineauthor         |-> iss.record.author.name,
     redmineprojectname    |-> iss.record.project.name,
     redmineassignedto     |-> NameOf(iss.record, "assigned_to"),
     redminecategory       |-> NameOf(iss.record, "category"),
     redminestartdate      |-> Date(iss.record, "start_date"),
     redminecreatedon      |-> Date(iss.record, "created_on"),
     redmineupdatedon      |-> Date(iss.record, "updated_on"),
     redmineduedate        |-> Date(iss.record, "due_date"),
     redmineestimatedhours |-> ConvertedHours(iss.record, "estimated_hours"),
     redminespenthours     |-> ConvertedHours(iss.record, "spent_hours")]

(***************************************************************************)
(* The records of the Gerrit and mapping specifications.                   *)
(***************************************************************************)
\* An author with its account id and any of name, username and email.
GerritAuthors ==
    {[account_id |-> 1000] @@ n @@ u @@ e :
        n \in Written("name", {"Al"}),
        u \in Written("username", {"al"}),
        e \in Written("email", {"al@example.org"})}

\* The message of a vote on patch set 1, by every kind of author.
VoteMessages ==
    [author : GerritAuthors,
     message : {PatchSet \o <<"1", ":", " ", "o", "k">>},
     revision_number : {1}]

\* The characters of the free part of a message text.
TextAlphabet == {"t", " ", "\n", "x", "1"}

\* Message texts: with or without "Patch Set ", with or without "1:", then
\* any short text.
Texts ==
    {pre \o num \o rest :
        pre \in {<<>>, PatchSet},
        num \in {<<>>, <<"1", ":">>},
        rest \in SeqsUpTo(TextAlphabet, MaxText)}

\* A message of every text, on patch set 1 or 2.
TextMessages ==
    [author : {[account_id |-> 1000, name |-> "Al"]},
     message : Texts,
     revision_number : {1, 2}]

Change(n, ms) ==
    [project |-> "p", number |-> n, subject |-> "S", branch |-> "main",
     messages |-> ms]

RECURSIVE ChangeLists(_, _, _)
\* The lists of at most n changes that hold at most m messages of msgs
\* altogether.
ChangeLists(msgs, n, m) ==
    {<<>>} \cup
    (IF n = 0 THEN {}
     ELSE UNION {{<<Change(n, ms)>> \o rest :
                     rest \in ChangeLists(msgs, n - 1, m - Len(ms))} :
                 ms \in SeqsUpTo(msgs, m)})

\* The optional keys of a change in every combination.
GerritRecords ==
    {Change(7, <<>>) @@ t @@ s @@ w :
        t \in Written("topic", {"fix"}),
        s \in Written("status", {"NEW"}),
        w \in Written("work_in_progress", BOOLEAN)}

GerritIssues ==
    {GetIssueForRecord("gerrit", r,
                       [url |-> BuildUrl(r), annotations |-> Annotations(r)]) :
        r \in GerritRecords}

\* A task of every priority, of one Phabricator does not know, and of none.
PhabricatorRecords ==
    {[uri |-> <<"https:", "", "phab.example.org", "T1">>, title |-> "Fix"] @@ p :
        p \in Written("priority", DOMAIN PhabricatorPriorityMap \cup {"Other"})}

PhabricatorIssues ==
    {GetIssueForRecord("phabricator", r, [project |-> "target", type |-> "issue"]) :
        r \in PhabricatorRecords}

\* The characters of a project name.
NameAlphabet == {"M", "y", " ", "!", "p", "1", "-"}

ProjectNames ==
    SeqsUpTo(NameAlphabet, MaxName) \cup {<<"M", "y", " ", "P", "r", "o", "j", "!">>}

RedMineRecord(name) ==
    [id |-> 42, subject |-> "Fix", tracker |-> [name |-> "Bug"],
     status |-> [name |-> "Open"], author |-> [name |-> "Al"],
     project |-> [name |-> name]]

\* A priority object of every name, of a name Redmine's map does not have,
\* and one without a name.
RedMinePriorities ==
    {[id |-> 1, name |-> n] : n \in DOMAIN RedMinePriorityMap \cup {"Other"}}
    \cup {[id |-> 1]}

\* Issues of every project name, and issues of one project with the
\* optional keys in every combination; hours are 0.0 or 1.5.
RedMineRecords ==
    {RedMineRecord(name) @@ ("priority" :> [id |-> 1, name |-> "High"]) :
        name \in ProjectNames}
    \cup
    {RedMineRecord(<<"M", "y", " ", "P", "r", "o", "j", "!">>) @@ p @@ s @@ e @@ d @@ c :
        p \in Written("priority", RedMinePriorities),
        s \in Written("spent_hours", {0, 15}),
        e \in Written("estimated_hours", {0, 15}),
        d \in Written("due_date", {<<1700000000, 250000>>}),
        c \in Written("category", {[name |-> "ui"]})}

\* get_issue_for_record(issue): extra is empty.
RedMineIssues ==
    {GetIssueForRecord("redmine", r, <<>>) : r \in RedMineRecords}

\* default_priority, and project_name empty or set.
MappingConfigs ==
    [default_priority : {"M", "L"},
     project_name : {<<>>, <<"w", "o", "r", "k">>}]

(***************************************************************************)
(* The collector normalises a yielded issue.                               *)
(***************************************************************************)
GerritNormalize ==
    /\ normalized = <<>>
    /\ issue.service = "gerrit"
    /\ normalized' = <<GerritToTaskwarrior(issue, mconfig)>>
    /\ UNCHANGED <<mconfig, issue, phabricator, gerrit>>

PhabricatorNormalize ==
    /\ normalized = <<>>
    /\ issue.service = "phabricator"
    /\ normalized' = <<PhabricatorToTaskwarrior(issue, mconfig)>>
    /\ UNCHANGED <<mconfig, issue, phabricator, gerrit>>

RedMineNormalize ==
    /\ normalized = <<>>
    /\ issue.service = "redmine"
    /\ normalized' = <<RedMineToTaskwarrior(issue, mconfig)>>
    /\ UNCHANGED <<mconfig, issue, phabricator, gerrit>>

(***************************************************************************)
(* A connector that does not run in a specification.                       *)
(***************************************************************************)
NoPhabricator ==
    /\ options = <<>> /\ config = <<>>
    /\ ignore_cc = FALSE /\ ignore_author = FALSE
    /\ pc = "idle"
    /\ tasks_owner = <<>> /\ tasks_cc = <<>> /\ tasks_author = <<>>
    /\ tasks = <<>> /\ diffs = <<>> /\ i = 0
    /\ out = <<>> /\ calls = <<>> /\ warned = {} /\ raised = "none"
    /\ remoteTasks = {} /\ remoteDiffs = {} /\ budget = 0

NoGerrit ==
    /\ gpc = "idle"
    /\ response = NoResponse /\ body = Text(<<>>, NotJson)
    /\ changes = <<>> /\ gi = 0
    /\ gout = <<>> /\ graised = "none" /\ gets = <<>>
    /\ gerritRemote = <<>>

NoMapping ==
    /\ mconfig = <<>> /\ issue = <<>> /\ normalized = <<>>

(***************************************************************************)
(* Specifications.                                                         *)
(***************************************************************************)
\* A constructed service about to run issues().
Constructed(o, rt, rd, n) ==
    /\ options = o
    /\ config = PhabricatorConfig(o)
    /\ ignore_cc = InitIgnoreCc(PhabricatorConfig(o))
    /\ ignore_author = InitIgnoreAuthor(PhabricatorConfig(o))
    /\ pc = "tasks"
    /\ tasks_owner = <<>> /\ tasks_cc = <<>> /\ tasks_author = <<>>
    /\ tasks = <<>> /\ diffs = <<>> /\ i = 0
    /\ out = <<>> /\ calls = <<>> /\ warned = {} /\ raised = "none"
    /\ remoteTasks = rt /\ remoteDiffs = rd /\ budget = n
    /\ NoGerrit /\ NoMapping

Init == \E o \in StartOptions : Constructed(o, BasicTasks, BasicDiffs, MaxRecords)

InitWide == \E o \in StartOptions : Constructed(o, AllTasks, AllDiffs, MaxRecordsWide)

\* The written options, before validation and construction.
InitConfig ==
    /\ options \in AllOptions
    /\ config = <<>>
    /\ ignore_cc = FALSE
    /\ ignore_author = FALSE
    /\ pc = "load"
    /\ tasks_owner = <<>> /\ tasks_cc = <<>> /\ tasks_author = <<>>
    /\ tasks = <<>> /\ diffs = <<>> /\ i = 0
    /\ out = <<>> /\ calls = <<>> /\ warned = {} /\ raised = "none"
    /\ remoteTasks = {} /\ remoteDiffs = {} /\ budget = 0
    /\ NoGerrit /\ NoMapping

\* A Gerrit service about to run issues() against a server that holds cs.
GerritConstructed(cs) ==
    /\ gpc = "issues"
    /\ response = NoResponse /\ body = Text(<<>>, NotJson)
    /\ changes = <<>> /\ gi = 0
    /\ gout = <<>> /\ graised = "none" /\ gets = <<>>
    /\ gerritRemote = cs
    /\ NoPhabricator /\ NoMapping

InitGerrit ==
    \E cs \in ChangeLists(VoteMessages, MaxChanges, MaxMessages) :
        GerritConstructed(cs)

InitGerritText ==
    \E m \in TextMessages : GerritConstructed(<<Change(1, <<m>>)>>)

\* An issue one of the connectors yielded, before the collector calls
\* to_taskwarrior().
InitMapping ==
    /\ mconfig \in MappingConfigs
    /\ \/ issue \in GerritIssues
       \/ issue \in PhabricatorIssues
       \/ issue \in RedMineIssues
    /\ normalized = <<>>
    /\ NoPhabricator /\ NoGerrit

Next ==
    \/ Tasks \/ QueryOwner \/ QueryCc \/ QueryAuthor \/ Concat
    \/ QueryProject \/ QueryAll \/ TaskStep \/ TasksReturn
    \/ QueryDifferential \/ DiffStep \/ RevisionsReturn

NextConfig == LoadConfig \/ Construct

\* One pass of issues() over a remote that holds two tasks and a revision,
\* each of which may change between two calls.
Spec == Init /\ [][Next]_vars

\* One pass of issues() in which the remote returns one record of any shape.
SpecWide == InitWide /\ [][Next]_vars

\* Validation of the options and construction of the service.
SpecConfig == InitConfig /\ [][NextConfig]_vars

NextGerrit == Get \/ ChangeStep \/ GerritReturn

NextMapping == GerritNormalize \/ PhabricatorNormalize \/ RedMineNormalize

\* One pass of GerritService.issues() over changes with voting messages.
SpecGerrit == InitGerrit /\ [][NextGerrit]_vars

\* One pass of GerritService.issues() over one change with one message of
\* any text.
SpecGerritText == InitGerritText /\ [][NextGerrit]_vars

\* to_taskwarrior() of one issue of any connector.
SpecMapping == InitMapping /\ [][NextMapping]_vars

(***************************************************************************)
(* Properties.                                                             *)
(***************************************************************************)
\* The records of the given type the consumer has received, in order.
Emitted(type) ==
    LET OfType(e) == e.type = type
        sel == SelectSeq(out, OfType)
    IN  [k \in 1..Len(sel) |-> sel[k].record]

IsEmitted(record, type) == \E k \in 1..Len(out) : out[k] = Issue(record, type)

Filtered == config.user_phids # {} \/ config.project_phids # {}

\* The elements the running loop has already been through.
Processed(list) == SubSeq(list, 1, i - 1)

\* The match of a task as the specification states it.
TaskShouldMatch(t) ==
    \/ /\ config.user_phids # {}
       /\ \/ ~ignore_cc /\ t.ccPHIDs \cap config.user_phids # {}
          \/ ~config.ignore_owner /\ t.ownerPHID \in config.user_phids
          \/ ~ignore_author /\ t.authorPHID \in config.user_phids
    \/ /\ config.project_phids # {}
       /\ t.projectPHIDs \cap config.project_phids # {}

\* C1: with a filter list configured, tasks() emits a fetched task if and
\* only if user_phids is set and meets the task's cc (unless ignore_cc), owner
\* (unless ignore_owner) or author (unless ignore_author), or project_phids is
\* set and meets the task's projects: after any number of iterations the
\* emitted tasks are exactly the processed tasks that match, in order.
C1_TaskEmittedIffMatches ==
    (pc = "loop_tasks" /\ Filtered) =>
        Emitted("issue") = SelectSeq(Processed(tasks), TaskShouldMatch)

\* C1 witness: both lists are set and a task that no configured user is
\* related to has been emitted through its project alone.
C1_Witness ==
    /\ pc = "loop_tasks" /\ i = 2 /\ Len(tasks) = 1
    /\ config.user_phids = {"U1"} /\ config.project_phids = {"P1"}
    /\ ~ignore_cc /\ ~ignore_author /\ ~config.ignore_owner
    /\ tasks[1].ownerPHID = None /\ tasks[1].ccPHIDs = {}
    /\ tasks[1].authorPHID = "U2" /\ tasks[1].projectPHIDs = {"P1"}
    /\ Emitted("issue") = <<tasks[1]>>

\* C2: with user_phids and project_phids both empty, every record the
\* maniphest query returned is emitted by tasks() and every record the
\* differential query returned is emitted by revisions(), whatever the four
\* ignore flags are: the emitted records are the processed ones, in order.
C2_UnfilteredEmitsEverything ==
    ~Filtered =>
        /\ pc = "loop_tasks" => Emitted("issue") = Processed(tasks)
        /\ pc = "loop_diffs" => Emitted("pull_request") = Processed(diffs)

\* C2 witness: no list is set, every role is ignored, and an untagged task
\* and a revision without reviewers and tags have both been emitted.
C2_Witness ==
    /\ ~Filtered
    /\ ignore_cc /\ ignore_author /\ config.ignore_owner /\ config.ignore_reviewers
    /\ pc = "loop_diffs" /\ i = 2 /\ Len(diffs) = 1
    /\ diffs[1].reviewers = {} /\ "phabricator_projects" \notin DOMAIN diffs[1]
    /\ Len(out) = 2
    /\ out[1].type = "issue" /\ out[1].record.projectPHIDs = {}
    /\ out[2] = Issue(diffs[1], "pull_request")

\* The roles of a record and the PHIDs each role names.
TaskRoles(t) ==
    [cc |-> t.ccPHIDs, owner |-> {t.ownerPHID}, author |-> {t.authorPHID}]

DiffRoles(d) ==
    [reviewers |-> d.reviewers, cc |-> d.ccs, author |-> {d.authorPHID}]

\* The effective ignore flag of a role.
Ignored(role) ==
    CASE role = "cc" -> ignore_cc
      [] role = "owner" -> config.ignore_owner
      [] role = "author" -> ignore_author
      [] role = "reviewers" -> config.ignore_reviewers

\* The record meets user_phids through this role and through no other.
OnlyVia(roles, role) ==
    /\ roles[role] \cap config.user_phids # {}
    /\ \A other \in DOMAIN roles \ {role} :
          roles[other] \cap config.user_phids = {}

DiffTags(d) ==
    IF "phabricator_projects" \in DOMAIN d THEN d.phabricator_projects ELSE {}

\* C3: a role whose ignore flag is true contributes nothing to the relevance
\* set: a processed task or revision that meets user_phids through one role
\* only (cc, owner, author; reviewers, cc, author) and does not meet
\* project_phids is emitted exactly when that role's flag is false.
C3_IgnoredRoleContributesNothing ==
    /\ pc = "loop_tasks" =>
          \A k \in 1..(i - 1) : \A role \in {"cc", "owner", "author"} :
              ( /\ OnlyVia(TaskRoles(tasks[k]), role)
                /\ tasks[k].projectPHIDs \cap config.project_phids = {} )
              => (IsEmitted(tasks[k], "issue") <=> ~Ignored(role))
    /\ pc = "loop_diffs" =>
          \A k \in 1..(i - 1) : \A role \in {"reviewers", "cc", "author"} :
              ( /\ OnlyVia(DiffRoles(diffs[k]), role)
                /\ (DiffTags(diffs[k]) \cup {diffs[k].repositoryPHID})
                      \cap config.project_phids = {} )
              => (IsEmitted(diffs[k], "pull_request") <=> ~Ignored(role))

\* C3 witness: ownerPHID U1, no cc, authorPHID U2, user_phids [U1] and
\* ignore_owner true: the task has been processed and not emitted.
C3_Witness ==
    /\ pc = "loop_tasks" /\ i = 2 /\ Len(tasks) = 1
    /\ config.user_phids = {"U1"} /\ config.ignore_owner
    /\ ~ignore_cc /\ ~ignore_author
    /\ tasks[1].ownerPHID = "U1" /\ tasks[1].ccPHIDs = {}
    /\ tasks[1].authorPHID = "U2"
    /\ tasks[1].projectPHIDs \cap config.project_phids = {}
    /\ out = <<>>

\* The match of a revision as the specification states it.
DiffShouldMatch(d) ==
    \/ /\ config.user_phids # {}
       /\ \/ ~config.ignore_reviewers /\ d.reviewers \cap config.user_phids # {}
          \/ ~ignore_cc /\ d.ccs \cap config.user_phids # {}
          \/ ~ignore_author /\ d.authorPHID \in config.user_phids
    \/ /\ config.project_phids # {}
       /\ (DiffTags(d) \cup {d.repositoryPHID}) \cap config.project_phids # {}

\* C4: with a filter list configured, revisions() emits a fetched revision if
\* and only if user_phids is set and meets its reviewers (unless
\* ignore_reviewers), ccs (unless ignore_cc) or author (unless ignore_author),
\* or project_phids is set and meets its project tags (none when the key is
\* absent) or its repository; no exception leaves the loop.
C4_DiffEmittedIffMatches ==
    (pc = "loop_diffs" /\ Filtered) =>
        /\ Emitted("pull_request")
              = SelectSeq(Processed(diffs), DiffShouldMatch)
        /\ raised = "none"

\* C4 witness: a revision without the tag key, related to no configured
\* user, has been emitted through its repository.
C4_Witness ==
    /\ pc = "loop_diffs" /\ i = 2 /\ Len(diffs) = 1
    /\ config.user_phids = {"U1"} /\ config.project_phids = {"P1"}
    /\ ~ignore_cc /\ ~ignore_author /\ ~config.ignore_reviewers
    /\ "phabricator_projects" \notin DOMAIN diffs[1]
    /\ diffs[1].repositoryPHID = "P1"
    /\ diffs[1].reviewers = {} /\ diffs[1].ccs = {} /\ diffs[1].authorPHID = "U2"
    /\ Emitted("pull_request") = <<diffs[1]>>

\* The maniphest queries issued so far.
ManiphestCalls ==
    LET IsManiphest(c) == c.method = "maniphest.query"
    IN  SelectSeq(calls, IsManiphest)

\* C5 (as stated): when project_phids is non-empty, whether or not
\* user_phids is, tasks() issues a single maniphest query, scoped by
\* projectPHIDs, and no owner-, cc- or author-scoped query in that pass.
C5_SingleProjectScopedQuery ==
    config.project_phids # {} =>
        /\ Len(ManiphestCalls) <= 1
        /\ \A k \in 1..Len(ManiphestCalls) : ManiphestCalls[k].by = "projectPHIDs"

\* The items of the project-scoped query of this pass.
ProjectItems ==
    UNION {SeqToSet(calls[k].items) :
              k \in {c \in 1..Len(calls) : calls[c].by = "projectPHIDs"}}

\* The items of the owner-, cc- and author-scoped queries of this pass.
UserItems ==
    UNION {SeqToSet(calls[k].items) :
              k \in {c \in 1..Len(calls) :
                        calls[c].by \in {"ownerPHIDs", "ccPHIDs", "authorPHIDs"}}}

\* C6: with user_phids and project_phids both configured, the loop of
\* tasks() runs over the project query's result alone, so every emitted task
\* is an item of the project-scoped query and a task only the owner-, cc- or
\* author-scoped queries returned is never emitted.
C6_ProjectResultOverwrites ==
    (config.user_phids # {} /\ config.project_phids # {}) =>
        /\ pc = "loop_tasks" => SeqToSet(tasks) = ProjectItems
        /\ \A k \in 1..Len(out) :
              out[k].type = "issue" => out[k].record \in ProjectItems
        /\ \A t \in UserItems \ ProjectItems : ~IsEmitted(t, "issue")

\* C6 witness: the owner-scoped query returned a task of U1, the project
\* query another one; the loop is over and only the latter was emitted.
C6_Witness ==
    /\ config.user_phids = {"U1"} /\ config.project_phids = {"P1"}
    /\ ~config.ignore_owner
    /\ pc = "loop_tasks" /\ i = 2 /\ Len(tasks) = 1
    /\ Len(tasks_owner) = 1 /\ tasks_owner[1].ownerPHID = "U1"
    /\ tasks_owner[1].phid # tasks[1].phid
    /\ TaskShouldMatch(tasks_owner[1])
    /\ Emitted("issue") = <<tasks[1]>>

\* C7 (as stated): with user_phids set and project_phids not, tasks() issues
\* the owner-, cc- and author-scoped queries in that order, a task returned
\* by more than one of them is emitted at most once in the pass, and every
\* task one of them returned is considered by the loop.
C7_UnionEmittedAtMostOnce ==
    (config.user_phids # {} /\ config.project_phids = {}) =>
        /\ \A k \in 1..Len(ManiphestCalls) :
              ManiphestCalls[k].by = <<"ownerPHIDs", "ccPHIDs", "authorPHIDs">>[k]
        /\ pc = "loop_tasks" =>
              /\ UserItems = SeqToSet(tasks)
              /\ \A a, b \in 1..Len(out) :
                    out[a].record.phid = out[b].record.phid => a = b

\* The types of the emitted records, in order.
OutTypes == [k \in 1..Len(out) |-> out[k].type]

RECURSIVE ReturnedBy(_)
ReturnedBy(cs) ==
    IF cs = <<>> THEN 0 ELSE Len(Head(cs).items) + ReturnedBy(Tail(cs))

\* C8: issues() is tasks() then revisions(): every emitted task (type
\* 'issue') precedes every emitted revision (type 'pull_request'), the
\* differential query is issued only once tasks() has returned and no task
\* is emitted after it, and the sequence is finite: it holds no more
\* records than the remote returned.
C8_TasksThenRevisions ==
    /\ \A a, b \in 1..Len(out) :
          (OutTypes[a] = "pull_request" /\ OutTypes[b] = "issue") => b < a
    /\ \A k \in 1..Len(calls) :
          calls[k].method = "differential.query" =>
              /\ pc \in {"loop_diffs", "done", "raised"}
              /\ \A c \in 1..Len(calls) :
                    calls[c].method = "maniphest.query" => c < k
              /\ \A a \in 1..Len(out) :
                    a > calls[k].at => OutTypes[a] = "pull_request"
    /\ Len(out) <= ReturnedBy(calls)

\* C8 witness: the pass is over and the consumer received a task and then
\* a revision.
C8_Witness ==
    /\ pc = "done"
    /\ OutTypes = <<"issue", "pull_request">>
    /\ calls[Len(calls)].method = "differential.query"
    /\ calls[Len(calls)].at = 1

\* C9: a maniphest.query or the differential.query that fails with an API
\* error is caught: no APIError reaches the consumer, tasks() (revisions())
\* has then ended and has emitted no record.
C9_ApiErrorEndsSequenceEmpty ==
    /\ raised # "APIError"
    /\ \A k \in 1..Len(calls) :
          calls[k].error = "APIError" =>
              IF calls[k].method = "maniphest.query"
              THEN /\ pc \in {"revisions", "loop_diffs", "done", "raised"}
                   /\ "issue" \notin SeqToSet(OutTypes)
                   /\ "tasks" \in warned
              ELSE /\ pc = "done"
                   /\ "pull_request" \notin SeqToSet(OutTypes)
                   /\ "revisions" \in warned

\* C9 witness: the owner-scoped query returned a task, the cc-scoped query
\* failed with an API error; the pass went on to revisions() and ended
\* without a task and without an exception.
C9_Witness ==
    /\ pc = "done" /\ raised = "none"
    /\ Len(calls) = 3
    /\ calls[1].by = "ownerPHIDs" /\ Len(calls[1].items) = 1
    /\ calls[2].by = "ccPHIDs" /\ calls[2].error = "APIError"
    /\ calls[3].method = "differential.query"
    /\ "issue" \notin SeqToSet(OutTypes)

\* What the configuration file gives an option, the default when it leaves
\* the option out.
WrittenOr(name, default) ==
    IF name \in DOMAIN options THEN options[name] ELSE default

\* C10: once the service is constructed, ignore_cc and ignore_author equal
\* the written value when one is written (an explicit false too, whatever
\* only_if_assigned is) and only_if_assigned otherwise; ignore_owner and
\* ignore_reviewers equal the written value, or false, whatever
\* only_if_assigned is.
C10_EffectiveIgnoreFlags ==
    pc = "tasks" =>
        /\ ignore_cc = WrittenOr("ignore_cc", WrittenOr("only_if_assigned", FALSE))
        /\ ignore_author
              = WrittenOr("ignore_author", WrittenOr("only_if_assigned", FALSE))
        /\ config.ignore_owner = WrittenOr("ignore_owner", FALSE)
        /\ config.ignore_reviewers = WrittenOr("ignore_reviewers", FALSE)

\* C10 witness: ignore_cc is written false and only_if_assigned true, the
\* other flags are not written: the service ignores authors, not cc.
C10_Witness ==
    /\ pc = "tasks"
    /\ "ignore_cc" \in DOMAIN options /\ options.ignore_cc = FALSE
    /\ "only_if_assigned" \in DOMAIN options /\ options.only_if_assigned = TRUE
    /\ DOMAIN options \cap {"ignore_author", "ignore_owner", "ignore_reviewers"} = {}
    /\ ~ignore_cc /\ ignore_author
    /\ ~config.ignore_owner /\ ~config.ignore_reviewers

\* The priority tables as the specification states them.
StatedPhabricatorPriority ==
    [p \in {"Unbreak Now!", "High", "Normal", "Low", "Wishlist"} |->
        CASE p \in {"Unbreak Now!", "High"} -> "H"
          [] p = "Normal" -> "M"
          [] p \in {"Low", "Wishlist"} -> "L"]

StatedRedMinePriority ==
    [p \in {"Low", "Normal", "High", "Urgent", "Immediate"} |->
        CASE p = "Low" -> "L"
          [] p = "Normal" -> "M"
          [] p \in {"High", "Urgent", "Immediate"} -> "H"]

\* The remote priority value of the issue: <<value>>, or <<>> when the
\* record has none.
RemotePriority ==
    IF "priority" \notin DOMAIN issue.record THEN <<>>
    ELSE IF issue.service = "phabricator" THEN <<issue.record.priority>>
    ELSE IF "name" \in DOMAIN issue.record.priority
         THEN <<issue.record.priority.name>>
         ELSE <<>>

StatedPriority(table) ==
    IF RemotePriority # <<>> /\ RemotePriority[1] \in DOMAIN table
    THEN table[RemotePriority[1]]
    ELSE mconfig.default_priority

\* C11: the priority of a normalised Phabricator task is H for 'Unbreak
\* Now!' and 'High', M for 'Normal', L for 'Low' and 'Wishlist'; that of a
\* Redmine issue is L for 'Low', M for 'Normal', H for 'High', 'Urgent' and
\* 'Immediate'; for 'Needs Triage', for every other value and when the
\* record has no priority it is the configured default priority, and the
\* record is normalised all the same.
C11_PriorityMaps ==
    normalized # <<>> =>
        /\ issue.service = "phabricator" =>
              normalized[1].priority = StatedPriority(StatedPhabricatorPriority)
        /\ issue.service = "redmine" =>
              normalized[1].priority = StatedPriority(StatedRedMinePriority)

\* C11 witness: a Phabricator task that needs triage got the default
\* priority L.
C11_Witness ==
    /\ normalized # <<>>
    /\ issue.service = "phabricator"
    /\ RemotePriority = <<"Needs Triage">>
    /\ mconfig.default_priority = "L"
    /\ normalized[1].priority = "L"

\* s without its first characters when they are the literal.
RemoveLiteral(s, literal) ==
    IF Len(s) >= Len(literal) /\ SubSeq(s, 1, Len(literal)) = literal
    THEN SubSeq(s, Len(literal) + 1, Len(s))
    ELSE s

\* The annotation text of a message as the specification states it.
StatedText(m) ==
    Strip(Replace(
        RemoveLiteral(RemoveLiteral(m.message, PatchSet),
                      Str(m.revision_number) \o <<":">>),
        "\n", " "))

\* C12 (as stated): the annotation text of a message is the message with
\* a leading literal "Patch Set " removed if present, then a leading
\* literal "<revision number>:" removed if present, newlines turned into
\* spaces and surrounding whitespace trimmed; no other leading character is
\* removed.
C12_LiteralPrefixesRemoved ==
    \A k \in 1..Len(gout) :
        \A j \in 1..Len(gout[k].record.messages) :
            gout[k].extra.annotations[j].text
                = StatedText(gout[k].record.messages[j])

RECURSIVE FirstPresent(_, _)
\* The value of the first of the keys the author has, or its account id.
FirstPresent(author, keys) ==
    IF keys = <<>> THEN author.account_id
    ELSE IF Head(keys) \in DOMAIN author THEN author[Head(keys)]
    ELSE FirstPresent(author, Tail(keys))

\* C13: every yielded change has one annotation per message, in the order
\* of the messages, and the author of each is the value of the first key
\* its author object has among name, username and email, in that order, and
\* the numeric account id when it has none of them.
C13_AuthorFallbackInOrder ==
    \A k \in 1..Len(gout) :
        LET messages == gout[k].record.messages
            annotations == gout[k].extra.annotations
        IN  /\ Len(annotations) = Len(messages)
            /\ \A j \in 1..Len(messages) :
                  annotations[j].author
                      = FirstPresent(messages[j].author,
                                     <<"name", "username", "email">>)

\* C13 witness: a change whose first message is by an author with an
\* account id only and whose second is by one with a username and an email:
\* its annotations are by 1000 and by "al", in that order.
C13_Witness ==
    /\ Len(gout) = 1
    /\ Len(gout[1].record.messages) = 2
    /\ DOMAIN gout[1].record.messages[1].author = {"account_id"}
    /\ DOMAIN gout[1].record.messages[2].author
          = {"account_id", "username", "email"}
    /\ Len(gout[1].extra.annotations) = 2
    /\ gout[1].extra.annotations[1].author = 1000
    /\ gout[1].extra.annotations[2].author = "al"

StatedDuration(tenths) == <<"P", "T">> \o Str(6 * tenths) \o <<"M">>

\* C15: the spent and estimated hours of a normalised Redmine issue are
\* the duration string of the record's value whenever the record has the
\* field, a value of 0.0 included, and null only when it has not.
C15_ZeroHoursConverted ==
    (normalized # <<>> /\ issue.service = "redmine") =>
        /\ normalized[1].redminespenthours
              = IF "spent_hours" \in DOMAIN issue.record
                THEN StatedDuration(issue.record.spent_hours) ELSE Null
        /\ normalized[1].redmineestimatedhours
              = IF "estimated_hours" \in DOMAIN issue.record
                THEN StatedDuration(issue.record.estimated_hours) ELSE Null

\* C15 witness: estimated_hours is 0.0, spent_hours is absent: the issue
\* has an estimate of no minutes and no spent hours.
C15_Witness ==
    /\ normalized # <<>> /\ issue.service = "redmine"
    /\ "estimated_hours" \in DOMAIN issue.record
    /\ issue.record.estimated_hours = 0
    /\ "spent_hours" \notin DOMAIN issue.record
    /\ normalized[1].redmineestimatedhours = <<"P", "T", "0", "M">>
    /\ normalized[1].redminespenthours = Null

\* The characters of [a-z0-9].
LowerAlnum == SeqToSet(LowerCase) \cup Digits

\* The project of a remote name as the specification states it: lower-cased,
\* then without its other characters.
StatedProject(name) ==
    LET IsLowerAlnum(c) == c \in LowerAlnum
    IN  SelectSeq(Lower(name), IsLowerAlnum)

\* C16: the project of a normalised Redmine issue is the configured
\* project_name when that is not empty; otherwise it is the remote project
\* name lower-cased and without its non-alphanumeric characters, and holds
\* characters of [a-z0-9] only.
C16_ProjectName ==
    (normalized # <<>> /\ issue.service = "redmine") =>
        IF mconfig.project_name # <<>>
        THEN normalized[1].project = mconfig.project_name
        ELSE /\ normalized[1].project = StatedProject(issue.record.project.name)
             /\ SeqToSet(normalized[1].project) \subseteq LowerAlnum

\* C16 witness: no project_name is configured and the project "My Proj!"
\* became "myproj".
C16_Witness ==
    /\ normalized # <<>> /\ issue.service = "redmine"
    /\ mconfig.project_name = <<>>
    /\ issue.record.project.name = <<"M", "y", " ", "P", "r", "o", "j", "!">>
    /\ normalized[1].project = <<"m", "y", "p", "r", "o", "j">>

\* C17: a normalised Gerrit change has the change's topic, or "notopic"
\* when the change has none; the change's status, or "" when it has none;
\* and gerritwip 1 when work_in_progress is true, 0 when it is false or
\* absent.  Every change is normalised, with or without these keys.
C17_OptionalKeysDefault ==
    (normalized # <<>> /\ issue.service = "gerrit") =>
        /\ normalized[1].gerrittopic
              = IF "topic" \in DOMAIN issue.record
                THEN issue.record.topic ELSE "notopic"
        /\ normalized[1].gerritstatus
              = IF "status" \in DOMAIN issue.record
                THEN issue.record.status ELSE ""
        /\ normalized[1].gerritwip
              = IF "work_in_progress" \in DOMAIN issue.record
                   /\ issue.record.work_in_progress
                THEN 1 ELSE 0

\* C17 witness: change 7 with work_in_progress true and neither topic nor
\* status: gerrittopic "notopic", gerritstatus "", gerritwip 1.
C17_Witness ==
    /\ normalized # <<>> /\ issue.service = "gerrit"
    /\ issue.record.number = 7
    /\ DOMAIN issue.record \cap {"topic", "status"} = {}
    /\ "work_in_progress" \in DOMAIN issue.record
    /\ issue.record.work_in_progress
    /\ normalized[1].gerrittopic = "notopic"
    /\ normalized[1].gerritstatus = ""
    /\ normalized[1].gerritwip = 1

\* The differential queries issued so far.
DifferentialCalls ==
    LET IsDifferential(c) == c.method = "differential.query"
    IN  SelectSeq(calls, IsDifferential)

TasksFailed ==
    \E k \in 1..Len(ManiphestCalls) : ManiphestCalls[k].error = "APIError"

\* A revision is to be emitted: it matches, or no list is configured.
RevisionWanted(d) == ~Filtered \/ DiffShouldMatch(d)

\* After an API error in tasks() the pass goes on: it is not over, and no
\* exception has reached the consumer, before the differential query was
\* issued; and when that query answered, the pass ends with every matching
\* revision of the answer emitted.
AfterTaskFailure ==
    (TasksFailed /\ pc \in {"done", "raised"}) =>
        /\ Len(DifferentialCalls) = 1
        /\ (pc = "done" /\ DifferentialCalls[1].error = "none") =>
              Emitted("pull_request")
                  = SelectSeq(DifferentialCalls[1].items, RevisionWanted)

\* A failed differential query leaves the emitted records as they were.
AfterRevisionFailure ==
    \A k \in 1..Len(DifferentialCalls) :
        DifferentialCalls[k].error # "none" =>
            /\ Len(out) = DifferentialCalls[k].at
            /\ Emitted("issue") = [j \in 1..Len(out) |-> out[j].record]

\* C18: a failure of the task query does not end issues(): after tasks()
\* ended on an API error the differential query is still issued and every
\* matching revision is emitted; and no step, a failing differential query
\* included, takes back a record that was emitted.
C18_FailuresAreIndependent ==
    [][/\ Len(out') >= Len(out)
       /\ SubSeq(out', 1, Len(out)) = out
       /\ AfterTaskFailure'
       /\ AfterRevisionFailure']_vars

\* C18 witness: the first task query failed with an API error, the
\* differential query answered with a revision, and the pass ended with
\* that revision emitted.
C18_Witness ==
    /\ pc = "done"
    /\ Len(calls) = 2
    /\ calls[1].method = "maniphest.query" /\ calls[1].error = "APIError"
    /\ calls[2].method = "differential.query" /\ calls[2].error = "none"
    /\ Len(calls[2].items) = 1
    /\ out = <<Issue(calls[2].items[1], "pull_request")>>

====
